---- MODULE Spec2Model ----
(***************************************************************************)
(* Model of the orthomosaic processing pipeline:                           *)
(*   - ranking_gen.gerar_ranking (sorting, rank, percentile, category)     *)
(*     and calcular_metricas_globais, checked under SpecRanking;           *)
(*   - main.processar_ortomosaico, api.executar_processamento_background   *)
(*     and the command line entry point (jobs, stages, notifications,      *)
(*     working files and storage), checked under Spec (one execution),     *)
(*     SpecConcorrente (concurrent background tasks) and SpecSequencial    *)
(*     (executions of one project, one after the other);                   *)
(*   - the index calculators of iv_gen, checked under SpecIndice;          *)
(*   - the chain recortar -> calcular_vari -> zonal_stats on a small       *)
(*     raster, checked under SpecCadeia.                                   *)
(***************************************************************************)
EXTENDS Integers, Sequences, FiniteSets, TLC

(***************************************************************************)
(* Bounds of the model.                                                    *)
(***************************************************************************)
\* largest number of cells of an input grid
MaxCelulas == 5
\* the mean index values a cell can have are 1..MaxMedia (scaled integers)
MaxMedia == 3

(***************************************************************************)
(* IEEE-754 binary64 arithmetic, as used by the percentile expression of   *)
(* ranking_gen.py:77.  A non-negative number is [i |-> integer part,       *)
(* f |-> fractional bits, most significant first, no trailing zero].       *)
(***************************************************************************)
\* significand width of a float64
Mantissa == 53

RECURSIVE BitLen(_)
BitLen(n) == IF n = 0 THEN 0 ELSE 1 + BitLen(n \div 2)

RECURSIVE Pow2(_)
Pow2(k) == IF k = 0 THEN 1 ELSE 2 * Pow2(k - 1)

\* the w-bit binary writing of v, and the value of the 8 bits of f after s
IntToBits(v, w) == [j \in 1..w |-> (v \div Pow2(w - j)) % 2]
BitAt(f, j) == IF j <= Len(f) THEN f[j] ELSE 0
BitsToInt(f, s) ==
  128 * BitAt(f, s + 1) + 64 * BitAt(f, s + 2) + 32 * BitAt(f, s + 3)
  + 16 * BitAt(f, s + 4) + 8 * BitAt(f, s + 5) + 4 * BitAt(f, s + 6)
  + 2 * BitAt(f, s + 7) + BitAt(f, s + 8)

Uns(f) == {j \in 1..Len(f) : f[j] = 1}
Zeros(f) == {j \in 1..Len(f) : f[j] = 0}
Maximo(S) == CHOOSE x \in S : \A y \in S : y <= x
Minimo(S) == CHOOSE x \in S : \A y \in S : y >= x

LeadingZeros(f) == IF Uns(f) = {} THEN Len(f) ELSE Minimo(Uns(f)) - 1

StripZeros(f) == IF Uns(f) = {} THEN <<>> ELSE SubSeq(f, 1, Maximo(Uns(f)))

\* f plus one unit in its last place; c is the carry into the integer part
IncBits(f) ==
  IF Zeros(f) = {} THEN [c |-> 1, f |-> [j \in 1..Len(f) |-> 0]]
  ELSE LET z == Maximo(Zeros(f))
       IN  [c |-> 0,
            f |-> [j \in 1..Len(f) |->
                     IF j < z THEN f[j] ELSE IF j = z THEN 1 ELSE 0]]

\* round-to-nearest-even of i.f (sticky: a non-zero tail follows f) to
\* Mantissa significant bits
Arredonda(i, f, sticky) ==
  LET keep == IF i > 0 THEN Mantissa - BitLen(i)
              ELSE LeadingZeros(f) + Mantissa
  IN  IF Len(f) <= keep THEN [i |-> i, f |-> StripZeros(f)]
      ELSE LET kept == SubSeq(f, 1, keep)
               resto == sticky \/ \E j \in (keep + 2)..Len(f) : f[j] = 1
               impar == IF keep = 0 THEN i % 2 = 1 ELSE kept[keep] = 1
               inc == IncBits(kept)
           IN  IF f[keep + 1] = 1 /\ (resto \/ impar)
               THEN [i |-> i + inc.c, f |-> StripZeros(inc.f)]
               ELSE [i |-> i, f |-> StripZeros(kept)]

\* binary long division, 8 bits at a time: the first 8 * blocos fractional
\* bits of rem / n and the remainder left
RECURSIVE DivBits(_, _, _)
DivBits(rem, n, blocos) ==
  IF blocos = 0 THEN [f |-> <<>>, rem |-> rem]
  ELSE LET nx == DivBits((256 * rem) % n, n, blocos - 1)
       IN  [f |-> IntToBits((256 * rem) \div n, 8) \o nx.f, rem |-> nx.rem]

\* float64 a / n for naturals a <= n, 0 < n < 2^16 (the quotient has at
\* most 16 leading zeros, so 80 bits hold Mantissa + 2 significant ones)
Divide(a, n) ==
  LET d == DivBits(a % n, n, 10)
  IN  Arredonda(a \div n, d.f, d.rem # 0)

\* float64 1 - q for 0 <= q <= 1
Subtrai1(q) ==
  IF q.i >= 1 THEN [i |-> 0, f |-> <<>>]
  ELSE IF q.f = <<>> THEN [i |-> 1, f |-> <<>>]
  ELSE Arredonda(0, IncBits([j \in 1..Len(q.f) |-> 1 - q.f[j]]).f, FALSE)

\* c * 0.f, 8 bits at a time from block k to the last one
RECURSIVE MulBits(_, _, _)
MulBits(c, f, k) ==
  IF 8 * (k - 1) >= Len(f) THEN [c |-> 0, f |-> <<>>]
  ELSE LET lo == MulBits(c, f, k + 1)
           t == c * BitsToInt(f, 8 * (k - 1)) + lo.c
       IN  [c |-> t \div 256, f |-> IntToBits(t % 256, 8) \o lo.f]

\* float64 c * x for a small natural c
Multiplica(c, x) ==
  LET m == MulBits(c, x.f, 1)
  IN  Arredonda(c * x.i + m.c, m.f, FALSE)

\* x >= t for a natural t
MaiorIgual(x, t) == x.i >= t

(***************************************************************************)
(* ranking_gen.gerar_ranking                                               *)
(***************************************************************************)
\* the mean zonal_stats reports for a cell without valid samples (None/NaN)
Nulo == 0
Medias == 1..MaxMedia

\* category thresholds of classificar_celula
LimiarExcelente == 80
LimiarBom == 60
LimiarMedio == 40
LimiarRegular == 20

\* 100 * (1 - ranking / len(gdf_stats)) in float64
PercentilMutSemComplemento(ranking, n) == Multiplica(100, Divide(ranking, n))
Percentil(ranking, n) == Multiplica(100, Subtrai1(Divide(ranking, n)))

\* the percentiles of every rank of every grid size, computed once
TabelaPercentil ==
  [n \in 1..MaxCelulas |-> [r \in 1..n |-> Percentil(r, n)]]

classificar_celula(percentil) ==
  IF MaiorIgual(percentil, LimiarExcelente) THEN "Excelente"
  ELSE IF MaiorIgual(percentil, LimiarBom) THEN "Bom"
  ELSE IF MaiorIgual(percentil, LimiarMedio) THEN "Medio"
  ELSE IF MaiorIgual(percentil, LimiarRegular) THEN "Regular"
  ELSE "Ruim"

\* a feature of the input grid with the statistics zonal_stats gives it:
\* count valid samples and their mean (Nulo when count = 0)
Celulas ==
  [count : {0}, mean : {Nulo}] \cup [count : {1}, mean : Medias]

\* the input grids: every sequence of at most MaxCelulas cells
Grades == UNION {[1..n -> Celulas] : n \in 0..MaxCelulas}

\* gdf_stats after from_features and the id column: row k has index label
\* k; an "id" the features carry is kept (the sample taken here numbers
\* them Len(g)..1), otherwise the ids are 1..Len(g) in input order
LinhasMutIdInvertido(g, tem_id) ==
  [k \in 1..Len(g) |->
     [indice |-> k,
      id |-> Len(g) + 1 - k,
      count |-> g[k].count,
      mean |-> g[k].mean,
      valor_medio |-> g[k].mean]]
Linhas(g, tem_id) ==
  [k \in 1..Len(g) |->
     [indice |-> k,
      id |-> IF tem_id THEN Len(g) + 1 - k ELSE k,
      count |-> g[k].count,
      mean |-> g[k].mean,
      valor_medio |-> g[k].mean]]

\* DataFrame.sort_values(by="valor_medio", ascending=False): among the rows
\* S still to place, the ones that may come next are those of the largest
\* value.  No sort kind is given, so pandas uses quicksort, which is not
\* stable: the order of rows of equal value is unspecified, and is a
\* nondeterministic choice here.
EscolhasMutCrescente(linhas, S) ==
  {k \in S : \A j \in S : linhas[k].valor_medio <= linhas[j].valor_medio}
Escolhas(linhas, S) ==
  {k \in S : \A j \in S : linhas[k].valor_medio >= linhas[j].valor_medio}

RECURSIVE OrdenaDefinidas(_, _)
OrdenaDefinidas(linhas, S) ==
  IF S = {} THEN {<<>>}
  ELSE UNION {{<<k>> \o t : t \in OrdenaDefinidas(linhas, S \ {k})} :
                k \in Escolhas(linhas, S)}

\* the rows of undefined value (NaN) keep their input order
RECURSIVE EmOrdem(_, _)
EmOrdem(S, k) ==
  IF S = {} THEN <<>>
  ELSE IF k \in S THEN <<k>> \o EmOrdem(S \ {k}, k + 1)
  ELSE EmOrdem(S, k + 1)

\* the orders sort_values can give: defined values first, in non-increasing
\* order, then the undefined ones (na_position="last")
Ordenacoes(linhas) ==
  LET n == Len(linhas)
      def == {k \in 1..n : linhas[k].valor_medio # Nulo}
  IN  {o \o EmOrdem((1..n) \ def, 1) : o \in OrdenaDefinidas(linhas, def)}

\* rows in sorted order with ranking, percentil and categoria
Ranqueia(linhas, o) ==
  LET n == Len(linhas)
  IN  [p \in 1..n |->
         [indice |-> linhas[o[p]].indice,
          id |-> linhas[o[p]].id,
          count |-> linhas[o[p]].count,
          mean |-> linhas[o[p]].mean,
          valor_medio |-> linhas[o[p]].valor_medio,
          ranking |-> p,
          percentil |-> TabelaPercentil[n][p],
          categoria |-> classificar_celula(TabelaPercentil[n][p])]]

VARIABLES
  job,      \* job[j]: the state of execution j (see JobLivre)
  local,    \* local[p][n]: working file n of tmp/p: who wrote it last
            \* (autor, 0: nobody) and every job that wrote / read it
  bucket    \* bucket[p][n]: object produtos_finais/p/n: the job whose file
            \* it holds (autor), and every job that wrote it

varsJobs == <<job, local, bucket>>

VARIABLES
  grade,      \* the input grid with the statistics of each cell
  tem_id,     \* whether the features of the input grid carry an "id"
  grade_saida,\* the rows written to caminho_saida (<<>>: nothing written)
  rk,         \* "inicio", "ok" (returned) or "erro" (raised)
  metricas    \* what calcular_metricas_globais returned (<<>>: not called)

varsRanking == <<grade, tem_id, grade_saida, rk, metricas>>

VARIABLES
  raster,   \* the raster given to an index calculator: [count, bandas]
  lidas,    \* the bands read with src.read, in order
  indice,   \* the raster written to caminho_saida (<<>>: nothing written)
  iv        \* the call: [estado, funcao, bandas asked, erro]

varsIndice == <<raster, lidas, indice, iv>>

VARIABLES
  fonte,      \* the orthomosaic: [nodata, largura, altura]
  limite,     \* the polygons of the boundary file (a set of rectangles)
  malha,      \* the cells of the grid file (a sequence of rectangles)
  recorte,    \* the clipped raster written by recortar (<<>>: none)
  indice_rec, \* the index raster written by calcular_vari (<<>>: none)
  zonal,      \* the samples zonal_stats took for each cell (<<>>: none)
  cd          \* the chain: [etapa, erro]

varsCadeia == <<fonte, limite, malha, recorte, indice_rec, zonal, cd>>

vars == <<varsRanking, varsJobs, varsIndice, varsCadeia>>

\* no index calculator and no clip -> index -> aggregate chain is running
SemIndice ==
  /\ raster = <<>>
  /\ lidas = <<>>
  /\ indice = <<>>
  /\ iv = <<>>
SemCadeia ==
  /\ fonte = <<>>
  /\ limite = {}
  /\ malha = <<>>
  /\ recorte = <<>>
  /\ indice_rec = <<>>
  /\ zonal = <<>>
  /\ cd = <<>>

\* no job is running while gerar_ranking is studied alone
SemJobs ==
  /\ job = <<>>
  /\ local = <<>>
  /\ bucket = <<>>

InitRanking ==
  /\ grade \in Grades
  /\ tem_id \in BOOLEAN
  /\ grade_saida = <<>>
  /\ rk = "inicio"
  /\ metricas = <<>>
  /\ SemJobs
  /\ SemIndice
  /\ SemCadeia

\* gerar_ranking on an empty grid: ValueError, nothing written
GerarRankingVazia ==
  /\ rk = "inicio"
  /\ grade = <<>>
  /\ rk' = "erro"
  /\ UNCHANGED <<grade, tem_id, grade_saida, metricas>>
  /\ UNCHANGED <<varsJobs, varsIndice, varsCadeia>>

\* gerar_ranking on a non-empty grid
GerarRanking ==
  /\ rk = "inicio"
  /\ grade # <<>>
  /\ \E o \in Ordenacoes(Linhas(grade, tem_id)) :
       grade_saida' = Ranqueia(Linhas(grade, tem_id), o)
  /\ rk' = "ok"
  /\ UNCHANGED <<grade, tem_id, metricas, varsJobs, varsIndice, varsCadeia>>

\* the area of the polygon of the k-th cell of the input grid
AreaDaCelula(k) == k

\* the sum of f over the finite set S
RECURSIVE Total(_, _)
Total(f, S) ==
  IF S = {} THEN 0
  ELSE LET x == CHOOSE y \in S : TRUE IN f[x] + Total(f, S \ {x})

\* the number num / den; den = 0 is NaN
Fracao(num, den) == [num |-> num, den |-> den]

\* Series.value_counts(): the number of rows of each value present
value_counts(g) ==
  [c \in {g[p].categoria : p \in DOMAIN g} |->
     Cardinality({p \in DOMAIN g : g[p].categoria = c})]

\* the statistics of grade["valor_medio"]: min, max, mean, median and std
\* skip the undefined values (skipna); the standard deviation (ddof = 1) is
\* held as its square
estatisticas_valor(g) ==
  LET def == {p \in DOMAIN g : g[p].valor_medio # Nulo}
      n == Cardinality(def)
      v == [p \in DOMAIN g |-> g[p].valor_medio]
      v2 == [p \in DOMAIN g |-> g[p].valor_medio * g[p].valor_medio]
      \* the defined values from the largest to the smallest
      o == CHOOSE q \in [1..n -> def] :
             /\ \A a, b \in 1..n : q[a] = q[b] => a = b
             /\ \A a, b \in 1..n : a < b => v[q[a]] >= v[q[b]]
  IN  [min |-> IF n = 0 THEN Nulo ELSE Minimo({v[p] : p \in def}),
       max |-> IF n = 0 THEN Nulo ELSE Maximo({v[p] : p \in def}),
       media |-> Fracao(Total(v, def), n),
       mediana |->
         IF n = 0 THEN Fracao(0, 0)
         ELSE Fracao(v[o[(n + 1) \div 2]] + v[o[(n + 2) \div 2]], 2),
       desvio_padrao |->
         Fracao(n * Total(v2, def) - Total(v, def) * Total(v, def),
                n * (n - 1))]

\* calcular_metricas_globais on the grid gerar_ranking wrote
CalcularMetricasGlobais ==
  /\ rk = "ok"
  /\ metricas = <<>>
  /\ LET g == grade_saida
         linhas == DOMAIN g
         contagem_categorias == value_counts(g)
         area == [p \in linhas |-> AreaDaCelula(g[p].indice)]
         area_total == Total(area, linhas)
         area_por_categoria ==
           [c \in DOMAIN contagem_categorias |->
              Total(area, {p \in linhas : g[p].categoria = c})]
     IN  metricas' =
           [total_celulas |-> Len(g),
            contagem_categorias |-> contagem_categorias,
            percentual_categorias |->
              [c \in DOMAIN contagem_categorias |->
                 Fracao(100 * contagem_categorias[c], Len(g))],
            area_total |-> area_total,
            area_por_categoria |-> area_por_categoria,
            percentual_area_por_categoria |->
              [c \in DOMAIN area_por_categoria |->
                 Fracao(100 * area_por_categoria[c], area_total)],
            estatisticas_valor |-> estatisticas_valor(g)]
  /\ UNCHANGED <<grade, tem_id, grade_saida, rk>>
  /\ UNCHANGED <<varsJobs, varsIndice, varsCadeia>>

NextRanking == GerarRankingVazia \/ GerarRanking \/ CalcularMetricasGlobais

SpecRanking == InitRanking /\ [][NextRanking]_vars

(***************************************************************************)
(* Jobs: api.iniciar_processamento, api.executar_processamento_background, *)
(* the command line of main.py and main.processar_ortomosaico.             *)
(***************************************************************************)
\* number of job executions (background tasks or command line runs)
MaxJobs == 2
\* the project identifiers are 1..MaxProjetos, the field ones 1..MaxTalhoes
MaxProjetos == 2
MaxTalhoes == 2

Jobs == 1..MaxJobs
Projetos == 1..MaxProjetos
Talhoes == 1..MaxTalhoes
\* the empty string as identifier of a request
Vazio == 0

\* the statements of the try block of processar_ortomosaico, in order
Ordem ==
  <<"conectar", "baixar_orto", "baixar_poligono", "baixar_grade",
    "recortar", "vari", "ranking", "relatorio",
    "enviar_recorte", "enviar_vari", "enviar_grade", "enviar_relatorio",
    "notificar">>
Indice(e) == CHOOSE k \in DOMAIN Ordem : Ordem[k] = e
Proxima(e) == Ordem[Indice(e) + 1]

EtapasBaixar == {"baixar_orto", "baixar_poligono", "baixar_grade"}
EtapasLocais == {"recortar", "vari", "ranking", "relatorio"}
EtapasEnviar ==
  {"enviar_recorte", "enviar_vari", "enviar_grade", "enviar_relatorio"}

\* the files of the working directory tmp/<id_projeto>
NomesLocais ==
  {"ortomosaico", "poligono", "grade_entrada", "recortado", "vari",
   "grade_saida", "relatorio"}
\* the objects produtos_finais/<id_projeto>/<name>
NomesProdutos == {"recortado", "vari", "grade_saida", "relatorio"}

\* the working file a stage writes and the ones it reads
EscreveMutRegrava(e) ==
  CASE e = "baixar_orto" -> "ortomosaico"
    [] e = "baixar_poligono" -> "poligono"
    [] e = "baixar_grade" -> "grade_entrada"
    [] e = "recortar" -> "recortado"
    [] e = "vari" -> "vari"
    [] e = "ranking" -> "grade_saida"
    [] e = "relatorio" -> "grade_saida"
Escreve(e) ==
  CASE e = "baixar_orto" -> "ortomosaico"
    [] e = "baixar_poligono" -> "poligono"
    [] e = "baixar_grade" -> "grade_entrada"
    [] e = "recortar" -> "recortado"
    [] e = "vari" -> "vari"
    [] e = "ranking" -> "grade_saida"
    [] e = "relatorio" -> "relatorio"
Le(e) ==
  CASE e = "recortar" -> {"ortomosaico", "poligono"}
    [] e = "vari" -> {"recortado"}
    [] e = "ranking" -> {"vari", "grade_entrada"}
    [] e = "relatorio" -> {"recortado", "vari", "grade_saida", "poligono"}
\* the working file a store uploads (and the name of the object it writes)
EnviaMutTroca(e) ==
  CASE e = "enviar_recorte" -> "vari"
    [] e = "enviar_vari" -> "recortado"
    [] e = "enviar_grade" -> "grade_saida"
    [] e = "enviar_relatorio" -> "relatorio"
Envia(e) ==
  CASE e = "enviar_recorte" -> "recortado"
    [] e = "enviar_vari" -> "vari"
    [] e = "enviar_grade" -> "grade_saida"
    [] e = "enviar_relatorio" -> "relatorio"

\* the report before gerar_relatorio has built it
SemRelatorio ==
  [escrito |-> FALSE, tabela_estatisticas |-> FALSE,
   tabela_categorias |-> FALSE, conclusao |-> "nenhuma"]

\* a slot no request has used yet; metricas is what gerar_relatorio got from
\* calcular_metricas_globais, relatorio what it put in the report
JobLivre ==
  [pc |-> "livre", modo |-> "nenhum", projeto |-> Vazio, talhao |-> Vazio,
   resposta |-> "nenhuma", notifs |-> <<>>, retorno |-> "nenhum",
   hist |-> <<>>, metricas |-> "nenhuma", relatorio |-> SemRelatorio]

\* requests take the slots in order
SlotLivre(j) ==
  /\ job[j].pc = "livre"
  /\ \A k \in Jobs : k < j => job[k].pc # "livre"

\* gerar_ranking is not studied in the runs of the jobs
SemRanking ==
  /\ grade = <<>>
  /\ tem_id = FALSE
  /\ grade_saida = <<>>
  /\ rk = "inicio"
  /\ metricas = <<>>

Init ==
  /\ job = [j \in Jobs |-> JobLivre]
  /\ local = [p \in Projetos |->
                [n \in NomesLocais |->
                   [autor |-> 0, escritores |-> {}, leitores |-> {},
                    versao |-> [j \in Jobs |-> 0]]]]
  /\ bucket = [p \in Projetos |->
                 [n \in NomesProdutos |-> [autor |-> 0, escritores |-> {}]]]
  /\ SemRanking
  /\ SemIndice
  /\ SemCadeia

\* what can happen to the POST of enviar_webhook
ResultadosPost == {"sem_url", "2xx", "nao_2xx", "excecao"}

\* enviar_webhook: without WEBHOOK_URL nothing is posted; an exception of
\* the POST and an answer that is not 2xx are logged.  Whatever the result
\* the call returns normally and leaves nothing in the program's state:
\* notifs records the calls and what became of each.
enviar_webhook(j, status, mensagem, resultado) ==
  Append(job[j].notifs,
         [status |-> status, mensagem |-> mensagem, resultado |-> resultado])

\* POST /processar with an empty identifier: the HTTPException(400) raised
\* in the try block is caught by its except clause, which raises 500; no
\* background task is added
IniciarProcessamentoInvalido(j, p, t) ==
  /\ p = Vazio \/ t = Vazio
  /\ SlotLivre(j)
  /\ job' = [job EXCEPT ![j] =
               [@ EXCEPT !.pc = "rejeitado", !.modo = "api",
                         !.projeto = p, !.talhao = t, !.resposta = "500"]]
  /\ UNCHANGED <<local, bucket, varsRanking, varsIndice, varsCadeia>>

\* POST /processar: the background task is added, the answer is "iniciado"
IniciarProcessamento(j, p, t) ==
  /\ p # Vazio /\ t # Vazio
  /\ SlotLivre(j)
  /\ job' = [job EXCEPT ![j] =
               [@ EXCEPT !.pc = "agendado", !.modo = "api",
                         !.projeto = p, !.talhao = t, !.resposta = "200"]]
  /\ UNCHANGED <<local, bucket, varsRanking, varsIndice, varsCadeia>>

\* python main.py <id_projeto> <id_talhao>: processar_ortomosaico is called
\* directly
LinhaDeComando(j, p, t) ==
  /\ SlotLivre(j)
  /\ job' = [job EXCEPT ![j] =
               [@ EXCEPT !.pc = "inicio", !.modo = "cli",
                         !.projeto = p, !.talhao = t]]
  /\ UNCHANGED <<local, bucket, varsRanking, varsIndice, varsCadeia>>

\* executar_processamento_background: enviar_webhook("iniciado"), then the
\* call of processar_ortomosaico
ExecutarBackground(j, r) ==
  /\ job[j].pc = "agendado"
  /\ job' = [job EXCEPT ![j] =
               [@ EXCEPT !.pc = "inicio",
                         !.notifs = enviar_webhook(j, "iniciado", "", r)]]
  /\ UNCHANGED <<local, bucket, varsRanking, varsIndice, varsCadeia>>

\* criar_diretorio_temporario, called before the try block: an error of
\* mkdir leaves processar_ortomosaico as an exception; only the except
\* clause of executar_processamento_background reports it
CriarDiretorio(j, ok, r) ==
  /\ job[j].pc = "inicio"
  /\ job' = [job EXCEPT ![j] =
               IF ok
               THEN [@ EXCEPT !.pc = "conectar",
                              !.hist = Append(@, <<"diretorio", TRUE>>)]
               ELSE [@ EXCEPT !.pc = "fim", !.retorno = "excecao",
                              !.hist = Append(@, <<"diretorio", FALSE>>),
                              !.notifs =
                                IF job[j].modo = "api"
                                THEN enviar_webhook(j, "erro", "diretorio",
                                                    r)
                                ELSE @]]
  /\ UNCHANGED <<local, bucket, varsRanking, varsIndice, varsCadeia>>

\* the except clause of processar_ortomosaico after stage e raised:
\* enviar_webhook("erro", str(e)) and return False
FalhaMutContinua(j, e, r) ==
  [job[j] EXCEPT !.pc = Proxima(e),
                 !.hist = Append(@, <<e, FALSE>>),
                 !.notifs = enviar_webhook(j, "erro", e, r)]
FalhaMutRepete(j, e, r) ==
  LET ja == \E k \in DOMAIN job[j].hist : job[j].hist[k] = <<e, FALSE>> IN
  [job[j] EXCEPT !.pc = IF ja THEN "fim" ELSE e,
                 !.retorno = IF ja THEN "False" ELSE @,
                 !.hist = Append(@, <<e, FALSE>>),
                 !.notifs = IF ja THEN enviar_webhook(j, "erro", e, r) ELSE @]
Falha(j, e, r) ==
  [job[j] EXCEPT !.pc = "fim", !.retorno = "False",
                 !.hist = Append(@, <<e, FALSE>>),
                 !.notifs = enviar_webhook(j, "erro", e, r)]

\* stage e returned: on to the next statement
Sucesso(j, e) ==
  [job[j] EXCEPT !.pc = Proxima(e), !.hist = Append(@, <<e, TRUE>>)]

\* sb_connect.conectar
Conectar(j, ok, r) ==
  /\ job[j].pc = "conectar"
  /\ job' = [job EXCEPT ![j] =
               IF ok THEN Sucesso(j, "conectar")
               ELSE Falha(j, "conectar", r)]
  /\ UNCHANGED <<local, bucket, varsRanking, varsIndice, varsCadeia>>

\* file n of tmp/p after job j wrote it / after job j read the files ns
EscritoMutMantemExistente(p, n, j) ==
  IF local[p][n].autor # 0 THEN local
  ELSE [local EXCEPT ![p][n] =
          [@ EXCEPT !.autor = j, !.escritores = @ \cup {j},
                    !.versao[j] = @ + 1]]
Escrito(p, n, j) ==
  [local EXCEPT ![p][n] =
     [@ EXCEPT !.autor = j, !.escritores = @ \cup {j},
               !.versao[j] = @ + 1]]
Lidos(loc, p, ns, j) ==
  [loc EXCEPT ![p] =
     [n \in NomesLocais |->
        IF n \in ns THEN [loc[p][n] EXCEPT !.leitores = @ \cup {j}]
        ELSE loc[p][n]]]

\* sb_connect.baixar_arquivo: one input written to the working directory
Baixar(j, ok, r) ==
  LET e == job[j].pc IN
  /\ e \in EtapasBaixar
  /\ job' = [job EXCEPT ![j] =
               IF ok THEN Sucesso(j, e) ELSE Falha(j, e, r)]
  /\ local' = IF ok THEN Escrito(job[j].projeto, Escreve(e), j) ELSE local
  /\ UNCHANGED <<bucket, varsRanking, varsIndice, varsCadeia>>

\* calcular_metricas_globais as gerar_relatorio sees it: the dictionary of
\* metrics, or None when anything in it raised (the exception is logged)
RetornoDasMetricas(calculadas) == IF calculadas THEN "dict" ELSE "None"

\* whether gerar_relatorio returns: a failure of the metrics does not make
\* it raise
RelatorioRetornaMutPropaga(ok, calculadas) == ok /\ calculadas
RelatorioRetorna(ok, calculadas) == ok

\* the report gerar_relatorio builds: each `if metricas and ...` guards a
\* table or the conclusion drawn from the metrics
gerar_relatorio(devolvido) ==
  [escrito |-> TRUE,
   tabela_estatisticas |-> devolvido # "None",
   tabela_categorias |-> devolvido # "None",
   conclusao |-> IF devolvido # "None" THEN "metricas" ELSE "generica"]

\* recortar, calcular_vari, gerar_ranking, gerar_relatorio: each reads
\* working files and writes one.  ok: nothing in the stage raises;
\* calculadas: calcular_metricas_globais, called by gerar_relatorio, does
\* not fail (its failure is taken as the only fault of the stage)
Transformar(j, ok, calculadas, r) ==
  LET e == job[j].pc
      retorna == IF e = "relatorio" THEN RelatorioRetorna(ok, calculadas)
                 ELSE ok
      jb == IF retorna THEN Sucesso(j, e) ELSE Falha(j, e, r)
      devolvido == RetornoDasMetricas(calculadas)
  IN
  /\ e \in EtapasLocais
  /\ ~calculadas => (ok /\ e = "relatorio")
  /\ job' = [job EXCEPT ![j] =
               IF e = "relatorio"
               THEN [jb EXCEPT !.metricas = devolvido,
                               !.relatorio = IF retorna
                                             THEN gerar_relatorio(devolvido)
                                             ELSE @]
               ELSE jb]
  /\ local' = IF retorna
              THEN Lidos(Escrito(job[j].projeto, Escreve(e), j),
                         job[j].projeto, Le(e), j)
              ELSE local
  /\ UNCHANGED <<bucket, varsRanking, varsIndice, varsCadeia>>

\* sb_connect.enviar_arquivo: the working file is read and uploaded
Enviar(j, ok, r) ==
  LET e == job[j].pc
      p == job[j].projeto
  IN
  /\ e \in EtapasEnviar
  /\ job' = [job EXCEPT ![j] =
               IF ok THEN Sucesso(j, e) ELSE Falha(j, e, r)]
  /\ local' = IF ok THEN Lidos(local, p, {Envia(e)}, j) ELSE local
  /\ bucket' = IF ok
               THEN [bucket EXCEPT ![p][Envia(e)] =
                       [autor |-> local[p][Envia(e)].autor,
                        escritores |-> @.escritores \cup {j}]]
               ELSE bucket
  /\ UNCHANGED <<varsRanking, varsIndice, varsCadeia>>

\* enviar_webhook("concluido") and return True
ConcluirMutExcecaoEscapa(j, r) ==
  /\ job[j].pc = "notificar"
  /\ job' = [job EXCEPT ![j] =
               IF r = "excecao"
               THEN [@ EXCEPT !.pc = "fim", !.retorno = "False",
                              !.hist = Append(@, <<"notificar", FALSE>>),
                              !.notifs = enviar_webhook(j, "concluido", "",
                                                        r)]
               ELSE [@ EXCEPT !.pc = "fim", !.retorno = "True",
                              !.hist = Append(@, <<"notificar", TRUE>>),
                              !.notifs = enviar_webhook(j, "concluido", "",
                                                        r)]]
  /\ UNCHANGED <<local, bucket, varsRanking, varsIndice, varsCadeia>>
Concluir(j, r) ==
  /\ job[j].pc = "notificar"
  /\ job' = [job EXCEPT ![j] =
               [@ EXCEPT !.pc = "fim", !.retorno = "True",
                         !.hist = Append(@, <<"notificar", TRUE>>),
                         !.notifs = enviar_webhook(j, "concluido", "",
                                                   r)]]
  /\ UNCHANGED <<local, bucket, varsRanking, varsIndice, varsCadeia>>

\* a step of a job that has been launched, with the POSTs of its
\* notifications ending in one of the ways R and the metrics of its report
\* computed or not as M allows
PassoCom(R, M) ==
  \/ \E j \in Jobs, r \in R : ExecutarBackground(j, r)
  \/ \E j \in Jobs, ok \in BOOLEAN, r \in R :
       CriarDiretorio(j, ok, r)
  \/ \E j \in Jobs, ok \in BOOLEAN, r \in R :
       Conectar(j, ok, r)
  \/ \E j \in Jobs, ok \in BOOLEAN, r \in R :
       Baixar(j, ok, r)
  \/ \E j \in Jobs, ok \in BOOLEAN, calculadas \in M, r \in R :
       Transformar(j, ok, calculadas, r)
  \/ \E j \in Jobs, ok \in BOOLEAN, r \in R :
       Enviar(j, ok, r)
  \/ \E j \in Jobs, r \in R : Concluir(j, r)

Passo == PassoCom(ResultadosPost, BOOLEAN)

\* no request has been made yet
SemPedidos == \A j \in Jobs : job[j].pc = "livre"

\* Spec: one request, from the API or from the command line, and the
\* execution it starts
Next ==
  \/ /\ SemPedidos
     /\ \E j \in Jobs, p \in Projetos \cup {Vazio}, t \in Talhoes \cup {Vazio} :
          IniciarProcessamentoInvalido(j, p, t)
  \/ /\ SemPedidos
     /\ \E j \in Jobs, p \in Projetos, t \in Talhoes :
          IniciarProcessamento(j, p, t)
  \/ /\ SemPedidos
     /\ \E j \in Jobs, p \in Projetos, t \in Talhoes : LinhaDeComando(j, p, t)
  \/ Passo

Spec == Init /\ [][Next]_vars

\* the webhook answers every POST with a 2xx status
Entregue == {"2xx"}

\* SpecConcorrente: up to MaxJobs requests accepted by the API, whose
\* background tasks run concurrently (FastAPI runs each in a worker thread);
\* every notification is delivered and the metrics of every report are
\* computed
NextConcorrente ==
  \/ \E j \in Jobs, p \in Projetos, t \in Talhoes :
       IniciarProcessamento(j, p, t)
  \/ PassoCom(Entregue, {TRUE})

SpecConcorrente == Init /\ [][NextConcorrente]_vars

\* SpecSequencial: up to MaxJobs requests for one project (and any field)
\* accepted by the API, each made after the execution of the one before
\* has ended; the executions share the working directory tmp/<id_projeto>,
\* which is never cleaned; every notification is delivered and the metrics
\* of every report are computed
NenhumEmCurso == \A j \in Jobs : job[j].pc \in {"livre", "fim"}
MesmoProjeto(p) == \A j \in Jobs : job[j].pc # "livre" => job[j].projeto = p

NextSequencial ==
  \/ /\ NenhumEmCurso
     /\ \E j \in Jobs, p \in Projetos, t \in Talhoes :
          MesmoProjeto(p) /\ IniciarProcessamento(j, p, t)
  \/ PassoCom(Entregue, {TRUE})

SpecSequencial == Init /\ [][NextSequencial]_vars

(***************************************************************************)
(* The index calculators of iv_gen.py, in float32 arithmetic.              *)
(*                                                                         *)
(* A sample read with src.read(b).astype(np.float32) is [n, x], the number *)
(* n * 2^x: an integer (x = 0) or a multiple of 2^ExpTau, a value far      *)
(* below epsilon (x = ExpTau).  Every |n| stays below 2^9, so the float32  *)
(* sum of two samples of one scale is exact and the float32 sum of an      *)
(* integer other than 0 and a multiple of 2^ExpTau rounds to the integer.  *)
(* A result of the division is [m, e, esp]: the float32 m * 2^e with m odd *)
(* (or 0), or an infinity or NaN (esp).                                    *)
(***************************************************************************)
\* largest number of bands of an input raster
MaxBandas == 4

\* the scale of the small samples, and epsilon = 1e-10 as the float32
\* EpsMant * 2^EpsExp (iv_gen.py:49)
ExpTau == -40
EpsMant == 14411519
EpsExp == -57
epsilon == [n |-> EpsMant, x |-> EpsExp]

Amostra(n, x) == [n |-> IF n = 0 THEN 0 ELSE n, x |-> IF n = 0 THEN 0 ELSE x]
\* the samples of the first pixel of an input raster
Amostras ==
  {Amostra(n, 0) : n \in {-1, 0, 1}} \cup
  {Amostra(n, ExpTau) : n \in {1, 110}}
\* the second pixel: the constant bands R = 50, G = 150, B = 50, NIR = 200
Sintetico(b) ==
  CASE b = 1 -> Amostra(50, 0)
    [] b = 2 -> Amostra(150, 0)
    [] b = 3 -> Amostra(50, 0)
    [] OTHER -> Amostra(200, 0)

Abs(n) == IF n < 0 THEN -n ELSE n
Sinal(n) == IF n < 0 THEN -1 ELSE IF n = 0 THEN 0 ELSE 1

\* a + b and a - b of float32 samples
Soma(a, b) ==
  IF a.n = 0 THEN b
  ELSE IF b.n = 0 THEN a
  ELSE IF a.x = b.x THEN Amostra(a.n + b.n, a.x)
  ELSE IF a.x > b.x THEN a ELSE b
Subtrai(a, b) == Soma(a, Amostra(-b.n, b.x))

\* np.abs(d) < epsilon
AbsMenorQueEpsilonMutSoZero(d) == d.n = 0
AbsMenorQueEpsilon(d) ==
  \/ d.n = 0
  \/ /\ d.x = ExpTau
     /\ Abs(d.n) * Pow2(ExpTau - EpsExp) < EpsMant

Float(m, e) == [m |-> m, e |-> e, esp |-> "finito"]
Infinito(s) == [m |-> s, e |-> 0, esp |-> "inf"]
NaN == [m |-> 0, e |-> 0, esp |-> "nan"]

\* m * 2^e with the factors 2 of m moved to the exponent
Normaliza(m, e) ==
  LET k == CHOOSE k \in 0..24 : m % Pow2(k) = 0 /\ m % Pow2(k + 1) # 0
  IN Float(m \div Pow2(k), e + k)

\* k more bits of the long division by d
PassoDivisao(st, k, d) ==
  [q |-> st.q * Pow2(k) + (st.r * Pow2(k)) \div d,
   r |-> (st.r * Pow2(k)) % d]

\* the float32 nearest to (n / d) * 2^sh, ties to even, for n > 0, d > 0
Quociente32(n, d, sh) ==
  LET i == IF n >= d
           THEN CHOOSE k \in 0..24 : d * Pow2(k) <= n /\ n < d * Pow2(k + 1)
           ELSE 0
      j == IF n < d
           THEN CHOOSE k \in 1..25 : n * Pow2(k - 1) < d /\ d <= n * Pow2(k)
           ELSE 0
      nn == n * Pow2(j)
      dd == d * Pow2(i)
      s0 == [q |-> 1, r |-> nn - dd]
      s1 == PassoDivisao(s0, 4, dd)
      s2 == PassoDivisao(s1, 4, dd)
      s3 == PassoDivisao(s2, 4, dd)
      s4 == PassoDivisao(s3, 4, dd)
      s5 == PassoDivisao(s4, 4, dd)
      s6 == PassoDivisao(s5, 3, dd)
      m == IF 2 * s6.r > dd \/ (2 * s6.r = dd /\ s6.q % 2 = 1)
           THEN s6.q + 1 ELSE s6.q
  IN Normaliza(m, sh + i - j - 23)

\* a / b of float32 samples
Divide32(a, b) ==
  IF b.n = 0 THEN (IF a.n = 0 THEN NaN ELSE Infinito(Sinal(a.n)))
  ELSE IF a.n = 0 THEN Float(0, 0)
  ELSE LET q == Quociente32(Abs(a.n), Abs(b.n), a.x - b.x)
       IN Float(Sinal(a.n) * Sinal(b.n) * q.m, q.e)

\* whether |v| >= 1 for a finite v
UmOuMais(v) ==
  \/ v.m # 0 /\ v.e >= 0
  \/ v.e < 0 /\ v.e >= -24 /\ Abs(v.m) >= Pow2(-v.e)

\* np.clip(v, -1.0, 1.0)
ClipMutSemLimite(v) == v
Clip(v) ==
  IF v.esp = "nan" THEN v
  ELSE IF v.esp = "inf" \/ UmOuMais(v) THEN Float(Sinal(v.m), 0)
  ELSE v

\* lines 48-57 (and 106-115, 164-173): the epsilon policy, the division
\* and the clamp
razao(numerador, denominador) ==
  LET d == IF AbsMenorQueEpsilon(denominador) THEN epsilon ELSE denominador
  IN Clip(Divide32(numerador, d))

variMutTrocaBandas(red, green, blue) ==
  razao(Subtrai(red, green), Subtrai(Soma(green, red), blue))
vari(red, green, blue) ==
  razao(Subtrai(green, red), Subtrai(Soma(green, red), blue))
ndvi(nir, red) == razao(Subtrai(nir, red), Soma(nir, red))
gndvi(nir, green) == razao(Subtrai(nir, green), Soma(nir, green))

\* the rasters given to the calculators: 1..MaxBandas bands of two pixels
Rasters ==
  UNION {{[count |-> c,
           bandas |-> [b \in 1..c |-> <<px[b], Sintetico(b)>>]] :
            px \in [1..c -> Amostras]} : c \in 1..MaxBandas}
NPixels(r) == Len(r.bandas[1])

SemErro == [tipo |-> "nenhum", minimo |-> 0]
\* IndexError of src.read for a band the raster does not have
ErroLeitura == [tipo |-> "IndexError", minimo |-> 0]
\* ValueError("O ortomosaico deve ter pelo menos {minimo} bandas")
ErroBandas(minimo) == [tipo |-> "ValueError", minimo |-> minimo]

InitIndice ==
  /\ raster \in Rasters
  /\ lidas = <<>>
  /\ indice = <<>>
  /\ iv = [estado |-> "inicio", funcao |-> "nenhuma", pedidas |-> <<>>,
           erro |-> SemErro]
  /\ SemJobs
  /\ SemRanking
  /\ SemCadeia

\* the bands src.read returns before it is asked one the raster lacks
LidasAte(pedidas, count) ==
  LET fora == {k \in DOMAIN pedidas : pedidas[k] > count}
  IN IF fora = {} THEN pedidas ELSE SubSeq(pedidas, 1, Minimo(fora) - 1)

Falhou_iv(funcao, pedidas, erro) ==
  iv' = [estado |-> "erro", funcao |-> funcao, pedidas |-> pedidas,
         erro |-> erro]

\* the body the three calculators share: check the band count against
\* minimo, read the bands asked, compute, write the output raster
CalcularMutSemVerificacao(funcao, pedidas, minimo, dados) ==
  /\ iv.estado = "inicio"
  /\ IF LidasAte(pedidas, raster.count) # pedidas
     THEN /\ Falhou_iv(funcao, pedidas, ErroLeitura)
          /\ lidas' = LidasAte(pedidas, raster.count)
          /\ UNCHANGED indice
     ELSE /\ iv' = [estado |-> "ok", funcao |-> funcao, pedidas |-> pedidas,
                    erro |-> SemErro]
          /\ lidas' = pedidas
          /\ indice' = [count |-> 1, dtype |-> "float32", nodata |-> -9999,
                        dados |-> dados]
  /\ UNCHANGED <<raster, varsJobs, varsRanking, varsCadeia>>
Calcular(funcao, pedidas, minimo, dados) ==
  /\ iv.estado = "inicio"
  /\ IF raster.count < minimo
     THEN /\ Falhou_iv(funcao, pedidas, ErroBandas(minimo))
          /\ UNCHANGED <<lidas, indice>>
     ELSE IF LidasAte(pedidas, raster.count) # pedidas
     THEN /\ Falhou_iv(funcao, pedidas, ErroLeitura)
          /\ lidas' = LidasAte(pedidas, raster.count)
          /\ UNCHANGED indice
     ELSE /\ iv' = [estado |-> "ok", funcao |-> funcao, pedidas |-> pedidas,
                    erro |-> SemErro]
          /\ lidas' = pedidas
          /\ indice' = [count |-> 1, dtype |-> "float32", nodata |-> -9999,
                        dados |-> dados]
  /\ UNCHANGED <<raster, varsJobs, varsRanking, varsCadeia>>

calcular_vari ==
  LET b == raster.bandas IN
  Calcular("vari", <<1, 2, 3>>, 3,
           [k \in 1..NPixels(raster) |-> vari(b[1][k], b[2][k], b[3][k])])

calcular_ndvi(banda_nir, banda_red) ==
  LET b == raster.bandas IN
  Calcular("ndvi", <<banda_nir, banda_red>>, Maximo({banda_nir, banda_red}),
           [k \in 1..NPixels(raster) |->
              ndvi(b[banda_nir][k], b[banda_red][k])])

calcular_gndvi(banda_nir, banda_green) ==
  LET b == raster.bandas IN
  Calcular("gndvi", <<banda_nir, banda_green>>,
           Maximo({banda_nir, banda_green}),
           [k \in 1..NPixels(raster) |->
              gndvi(b[banda_nir][k], b[banda_green][k])])

NextIndice ==
  \/ calcular_vari
  \/ \E banda_nir, banda_red \in 1..MaxBandas :
       calcular_ndvi(banda_nir, banda_red)
  \/ \E banda_nir, banda_green \in 1..MaxBandas :
       calcular_gndvi(banda_nir, banda_green)

SpecIndice == InitIndice /\ [][NextIndice]_vars

(***************************************************************************)
(* The chain recortar -> calcular_vari -> zonal_stats (gerar_ranking) on a *)
(* small raster.  Coordinates are in units of 1 / Lado of a pixel, the     *)
(* raster's corner is (0, 0) and pixel (c, r) is the square from           *)
(* (Lado * c, Lado * r) to (Lado * (c + 1), Lado * (r + 1)).  The polygons *)
(* are rectangles whose sides lie on no pixel edge and on no pixel centre. *)
(***************************************************************************)
\* width and height of the orthomosaic, in pixels
Largura == 2
Altura == 2
\* units of length per pixel side
Lado == 8
\* the coordinates the sides of the rectangles can have
Xs == {-5, -3, 1, 3, 11, 13}
Ys == {3, 5, 13}

Retangulos ==
  {[x0 |-> a, x1 |-> b, y0 |-> c, y1 |-> d] :
     <<a, b>> \in {<<a, b>> \in Xs \X Xs : a < b},
     <<c, d>> \in {<<c, d>> \in Ys \X Ys : c < d}}
\* the boundary files: no polygon, one or two
Limites ==
  {{}} \cup {{a, b} : a \in Retangulos, b \in Retangulos}
\* the grid files: no cell, or one cell inside the raster
Malhas == {<<>>} \cup {<<g>> : g \in {r \in Retangulos : r.x0 > 0}}

\* the nodata value of the orthomosaic, if it defines one
SemNodata == [definido |-> FALSE, valor |-> 0]
Nodatas == {SemNodata, [definido |-> TRUE, valor |-> 255]}
\* the orthomosaics: RGB of 8-bit samples with or without a nodata value,
\* or MaxBandas bands of 16-bit samples with a nodata value
Fontes ==
  {[largura |-> Largura, altura |-> Altura, count |-> 3, dtype |-> "uint8",
    nodata |-> nd] : nd \in Nodatas} \cup
  {[largura |-> Largura, altura |-> Altura, count |-> MaxBandas,
    dtype |-> "uint16", nodata |-> [definido |-> TRUE, valor |-> 255]]}
\* the samples (red, green, blue) of pixel (c, r) of the orthomosaic
AmostrasFonte(c, r) ==
  <<Amostra(50 + 10 * c + 20 * r, 0), Amostra(150, 0), Amostra(50, 0)>>
\* the samples of pixel (c, r) of orthomosaic f in every band
PixelFonte(f, c, r) ==
  [b \in 1..f.count |->
     IF b <= 3 THEN AmostrasFonte(c, r)[b] ELSE Amostra(200, 0)]
\* the value mask gives the pixels outside the shapes: the nodata value of
\* the raster, or 0 if it has none
ValorDeFundoMutZero(f) == 0
ValorDeFundo(f) == IF f.nodata.definido THEN f.nodata.valor ELSE 0

SemErroCadeia == [tipo |-> "nenhum", mensagem |-> "nenhuma"]
\* the ValueError raised by recortar, rasterio.mask.mask and gerar_ranking
ErroValor(mensagem) == [tipo |-> "ValueError", mensagem |-> mensagem]

InitCadeia ==
  /\ fonte \in Fontes
  /\ limite \in Limites
  /\ malha \in Malhas
  /\ recorte = <<>>
  /\ indice_rec = <<>>
  /\ zonal = <<>>
  /\ cd = [etapa |-> "recortar", erro |-> SemErroCadeia]
  /\ SemJobs
  /\ SemRanking
  /\ SemIndice

\* the pixel column (row) that holds coordinate x, and the first column
\* (row) that starts at or after x
Piso(x) == x \div Lado
Teto(x) == -((-x) \div Lado)

\* rasterio geometry_window with crop=True: the bounding box of the shapes,
\* snapped outwards to the pixel grid and intersected with the raster
Janela(ps, f) ==
  [c0 |-> Maximo({0, Piso(Minimo({p.x0 : p \in ps}))}),
   c1 |-> Minimo({f.largura, Teto(Maximo({p.x1 : p \in ps}))}),
   r0 |-> Maximo({0, Piso(Minimo({p.y0 : p \in ps}))}),
   r1 |-> Minimo({f.altura, Teto(Maximo({p.y1 : p \in ps}))})]
\* WindowError: "Input shapes do not overlap raster."
JanelaVaziaMutNunca(j) == FALSE
JanelaVazia(j) == j.c0 >= j.c1 \/ j.r0 >= j.r1
PixelsDaJanela(j) == (j.c0 .. j.c1 - 1) \X (j.r0 .. j.r1 - 1)

\* all_touched=True: rectangle p burns every pixel it touches
TocaMutCentro(p, c, r) ==
  /\ 2 * p.x0 < Lado * (2 * c + 1) /\ Lado * (2 * c + 1) < 2 * p.x1
  /\ 2 * p.y0 < Lado * (2 * r + 1) /\ Lado * (2 * r + 1) < 2 * p.y1
Toca(p, c, r) ==
  /\ p.x0 < Lado * (c + 1) /\ p.x1 > Lado * c
  /\ p.y0 < Lado * (r + 1) /\ p.y1 > Lado * r
\* all_touched=False (the default of rasterize): rectangle p burns the
\* pixels whose centre it contains
CentroDentro(p, c, r) ==
  /\ 2 * p.x0 < Lado * (2 * c + 1) /\ Lado * (2 * c + 1) < 2 * p.x1
  /\ 2 * p.y0 < Lado * (2 * r + 1) /\ Lado * (2 * r + 1) < 2 * p.y1

FalhouCadeia(mensagem) ==
  cd' = [etapa |-> "erro", erro |-> ErroValor(mensagem)]

\* recorte_ortomosaico.recortar: mask(src, geometrias, crop=True,
\* all_touched=True) and the write of the clipped raster
recortar ==
  /\ cd.etapa = "recortar"
  /\ IF limite = {}
     THEN FalhouCadeia("poligono vazio") /\ UNCHANGED recorte
     ELSE IF JanelaVazia(Janela(limite, fonte))
     THEN FalhouCadeia("sem sobreposicao") /\ UNCHANGED recorte
     ELSE LET j == Janela(limite, fonte)
              nd == ValorDeFundo(fonte)
          IN /\ recorte' =
                  [c0 |-> j.c0, r0 |-> j.r0,
                   largura |-> j.c1 - j.c0, altura |-> j.r1 - j.r0,
                   count |-> fonte.count, dtype |-> fonte.dtype,
                   nodata |-> fonte.nodata,
                   dados |->
                     [px \in PixelsDaJanela(j) |->
                        IF \E p \in limite : Toca(p, px[1], px[2])
                        THEN PixelFonte(fonte, px[1], px[2])
                        ELSE [b \in 1..fonte.count |-> Amostra(nd, 0)]]]
             /\ cd' = [cd EXCEPT !.etapa = "vari"]
  /\ UNCHANGED <<fonte, limite, malha, indice_rec, zonal>>
  /\ UNCHANGED <<varsJobs, varsRanking, varsIndice>>

\* iv_gen.calcular_vari on the clipped raster
calcular_vari_recorte ==
  /\ cd.etapa = "vari"
  /\ IF recorte.count < 3
     THEN FalhouCadeia("bandas") /\ UNCHANGED indice_rec
     ELSE /\ indice_rec' =
               [c0 |-> recorte.c0, r0 |-> recorte.r0,
                largura |-> recorte.largura, altura |-> recorte.altura,
                count |-> 1, dtype |-> "float32", nodata |-> -9999,
                dados |->
                  [px \in DOMAIN recorte.dados |->
                     vari(recorte.dados[px][1], recorte.dados[px][2],
                          recorte.dados[px][3])]]
          /\ cd' = [cd EXCEPT !.etapa = "ranking"]
  /\ UNCHANGED <<fonte, limite, malha, recorte, zonal>>
  /\ UNCHANGED <<varsJobs, varsRanking, varsIndice>>

\* ranking_gen.gerar_ranking, lines 43-57: the empty grid check and
\* zonal_stats(grade, caminho_indice, ..., nodata=-9999), which samples for
\* each cell the pixels rasterize burns, less those holding nodata
zonal_stats ==
  /\ cd.etapa = "ranking"
  /\ IF malha = <<>>
     THEN FalhouCadeia("grade vazia") /\ UNCHANGED zonal
     ELSE /\ zonal' =
               [amostras |->
                  [k \in DOMAIN malha |->
                     {px \in DOMAIN indice_rec.dados :
                        /\ CentroDentro(malha[k], px[1], px[2])
                        /\ indice_rec.dados[px] # Float(-9999, 0)}]]
          /\ cd' = [cd EXCEPT !.etapa = "fim"]
  /\ UNCHANGED <<fonte, limite, malha, recorte, indice_rec>>
  /\ UNCHANGED <<varsJobs, varsRanking, varsIndice>>

NextCadeia == recortar \/ calcular_vari_recorte \/ zonal_stats

SpecCadeia == InitCadeia /\ [][NextCadeia]_vars

(***************************************************************************)
(* Properties of the index calculators (checked under SpecIndice).         *)
(* The formulas are evaluated here in exact arithmetic: [u, t] is the      *)
(* number u + t * 2^ExpTau (|t| * 2^ExpTau < 2^-30).                       *)
(***************************************************************************)
Exato(a) == IF a.x = 0 THEN [u |-> a.n, t |-> 0] ELSE [u |-> 0, t |-> a.n]
Mais(a, b) == [u |-> a.u + b.u, t |-> a.t + b.t]
Menos(a, b) == [u |-> a.u - b.u, t |-> a.t - b.t]
SinalExato(a) == IF a.u # 0 THEN Sinal(a.u) ELSE Sinal(a.t)
AbsExato(a) == IF SinalExato(a) < 0 THEN [u |-> -a.u, t |-> -a.t] ELSE a
MenorExato(a, b) == a.u < b.u \/ (a.u = b.u /\ a.t < b.t)
\* |a| < 1e-10, that is u = 0 and |t| < 2^40 / 10^10 = 2^30 / 5^10
AbaixoDeEpsilon(a) ==
  /\ a.u = 0
  /\ Abs(a.t) <= Pow2(-ExpTau - 10) \div (5^10)

\* band i of the call (1-based, in the order of the formula's arguments) at
\* pixel k, and the numerator and denominator of the formula of the call:
\* VARI = (G - R) / (G + R - B) with R, G, B the bands 1, 2, 3;
\* NDVI = (NIR - RED) / (NIR + RED); GNDVI = (NIR - GREEN) / (NIR + GREEN)
BandaPedida(i, k) == Exato(raster.bandas[iv.pedidas[i]][k])
NumeradorExato(k) ==
  IF iv.funcao = "vari"
  THEN Menos(Exato(raster.bandas[2][k]), Exato(raster.bandas[1][k]))
  ELSE Menos(BandaPedida(1, k), BandaPedida(2, k))
DenominadorExato(k) ==
  IF iv.funcao = "vari"
  THEN Menos(Mais(Exato(raster.bandas[2][k]), Exato(raster.bandas[1][k])),
             Exato(raster.bandas[3][k]))
  ELSE Mais(BandaPedida(1, k), BandaPedida(2, k))

\* the sign of the quotient of the formula once the epsilon policy is
\* applied, and whether its magnitude exceeds 1
SinalResultado(k) ==
  IF AbaixoDeEpsilon(DenominadorExato(k)) THEN SinalExato(NumeradorExato(k))
  ELSE SinalExato(NumeradorExato(k)) * SinalExato(DenominadorExato(k))
ModuloAcimaDeUm(k) ==
  IF AbaixoDeEpsilon(DenominadorExato(k))
  THEN ~AbaixoDeEpsilon(NumeradorExato(k))
  ELSE MenorExato(AbsExato(DenominadorExato(k)), AbsExato(NumeradorExato(k)))

\* -1 <= v <= 1 for a float32 v
NoIntervalo(v) ==
  /\ v.esp = "finito"
  /\ \/ v.m = 0
     \/ /\ v.e <= 0
        /\ v.e < -24 \/ Abs(v.m) <= Pow2(-v.e)

Pixels == DOMAIN indice.dados

\* C14: every sample an index calculator writes lies in [-1, 1] unless it
\* is the nodata sentinel -9999; a quotient above 1 is written as exactly 1
\* and a quotient below -1 as exactly -1.
C14_OutputClampedToUnitInterval ==
  iv.estado = "ok" =>
    \A k \in Pixels :
      LET v == indice.dados[k] IN
      /\ NoIntervalo(v) \/ v = Float(indice.nodata, 0)
      /\ (ModuloAcimaDeUm(k) /\ SinalResultado(k) > 0) => v = Float(1, 0)
      /\ (ModuloAcimaDeUm(k) /\ SinalResultado(k) < 0) => v = Float(-1, 0)

\* C14 witness: calcular_vari wrote 1 for a pixel whose quotient is above 1
\* and a value strictly inside the interval for the other pixel.
C14_Witness ==
  /\ iv.estado = "ok"
  /\ iv.funcao = "vari"
  /\ ModuloAcimaDeUm(1)
  /\ SinalResultado(1) > 0
  /\ indice.dados[1] = Float(1, 0)
  /\ indice.dados[2].e < 0

\* v * 2^20 truncated, for a float32 v (beyond 2^20 when v is outside [-1, 1])
Escala20(v) ==
  IF ~NoIntervalo(v) THEN Sinal(v.m) * Pow2(21)
  ELSE IF v.m = 0 THEN 0
  ELSE IF v.e >= -20 THEN v.m * Pow2(v.e + 20)
  ELSE IF v.e < -44 THEN 0
  ELSE Sinal(v.m) * (Abs(v.m) \div Pow2(-v.e - 20))
\* |v - r.p / r.q| < 2^-18 (float32 rounding is below 2^-24; the spec's
\* tolerance is 1e-4)
Perto(v, r) ==
  /\ v.esp = "finito"
  /\ Abs(Escala20(v) * r.q - r.p * Pow2(20)) <= 2 * r.q

\* s * min(a / b, 1) for a >= 0, b > 0
Limitada(s, a, b) ==
  IF a >= b THEN [p |-> s, q |-> 1] ELSE [p |-> s * a, q |-> b]
\* the formula of the call at pixel k, clamped to [-1, 1], for a denominator
\* other than 0; the parts in 2^ExpTau are dropped beside integer parts
FormulaLimitada(k) ==
  LET n == NumeradorExato(k)
      d == DenominadorExato(k)
  IN IF d.u # 0
     THEN Limitada(Sinal(n.u) * Sinal(d.u), Abs(n.u), Abs(d.u))
     ELSE IF n.u # 0 THEN [p |-> Sinal(n.u) * Sinal(d.t), q |-> 1]
     ELSE Limitada(Sinal(n.t) * Sinal(d.t), Abs(n.t), Abs(d.t))

\* C15 as stated: for every pixel whose denominator is not 0 the index
\* written is the clamped value of the formula of the call, with VARI read
\* from bands 1, 2, 3 and NDVI, GNDVI from the bands asked.
C15_FormulaForNonZeroDenominator ==
  iv.estado = "ok" =>
    \A k \in Pixels :
      DenominadorExato(k) # [u |-> 0, t |-> 0] =>
        Perto(indice.dados[k], FormulaLimitada(k))

\* C15 amended: for every pixel whose denominator has magnitude at least
\* 1e-10 the index written is the clamped value of the formula of the call;
\* for the constant bands R = 50, G = 150, B = 50, NIR = 200 VARI is 2/3 and
\* NDVI with NIR = band 4, RED = band 1 is 3/5.
C15_FormulaForDenominatorAboveEpsilon ==
  iv.estado = "ok" =>
    /\ \A k \in Pixels :
         ~AbaixoDeEpsilon(DenominadorExato(k)) =>
           Perto(indice.dados[k], FormulaLimitada(k))
    /\ iv.funcao = "vari" => Perto(indice.dados[2], [p |-> 2, q |-> 3])
    /\ (iv.funcao = "ndvi" /\ iv.pedidas = <<4, 1>>) =>
         Perto(indice.dados[2], [p |-> 3, q |-> 5])

\* C15 witness: calcular_vari on a pixel whose denominator is above epsilon
\* and whose quotient is strictly between 0 and 1, beside the pixel of the
\* constant bands.
C15_Witness ==
  /\ iv.estado = "ok"
  /\ iv.funcao = "vari"
  /\ ~AbaixoDeEpsilon(DenominadorExato(1))
  /\ indice.dados[1].m > 0
  /\ indice.dados[1].e < 0
  /\ FormulaLimitada(2) = [p |-> 100, q |-> 150]

\* the numerator of pixel k divided by 1e-10, times 2^20, truncated, when
\* the numerator is below 1e-10 in magnitude: t * 2^ExpTau * 10^10 * 2^20
NumeradorPorEpsilon20(k) ==
  LET t == NumeradorExato(k).t
  IN Sinal(t) * ((Abs(t) * 5^10) \div Pow2(-ExpTau - 30))

Range(f) == {f[x] : x \in DOMAIN f}

\* every input pixel has an output sample, and it is a finite number
TodosFinitos ==
  /\ Pixels = 1..NPixels(raster)
  /\ \A k \in Pixels : indice.dados[k].esp = "finito"

\* C16 as stated: a denominator below 1e-10 in magnitude is replaced by
\* +1e-10, every input pixel yields a finite sample, and with a denominator
\* of 0 the output is 1, -1 or 0 as the numerator is positive, negative or 0.
C16_ZeroDenominatorGivesSign ==
  iv.estado = "ok" =>
    /\ TodosFinitos
    /\ \A k \in Pixels :
         DenominadorExato(k) = [u |-> 0, t |-> 0] =>
           indice.dados[k] = Float(SinalExato(NumeradorExato(k)), 0)

\* C16 amended: every input pixel yields a finite sample; where the
\* denominator is below 1e-10 in magnitude (0 and small negative values
\* included) the sample is the numerator divided by +1e-10 and clamped: it
\* has the sign of the numerator, it is 1 or -1 when the numerator is at
\* least 1e-10 in magnitude, and numerator / 1e-10 otherwise.
C16_SmallDenominatorReplacedByEpsilon ==
  iv.estado = "ok" =>
    /\ TodosFinitos
    /\ \A k \in Pixels :
         AbaixoDeEpsilon(DenominadorExato(k)) =>
           LET v == indice.dados[k]
               n == NumeradorExato(k)
           IN /\ Sinal(v.m) = SinalExato(n)
              /\ ~AbaixoDeEpsilon(n) => v = Float(SinalExato(n), 0)
              /\ AbaixoDeEpsilon(n) =>
                   Abs(Escala20(v) - NumeradorPorEpsilon20(k)) <= 2

\* C16 witness: calcular_vari on a pixel whose denominator is negative and
\* below 1e-10 in magnitude and whose numerator is positive: the sample
\* written is positive and below 1.
C16_Witness ==
  /\ iv.estado = "ok"
  /\ iv.funcao = "vari"
  /\ AbaixoDeEpsilon(DenominadorExato(1))
  /\ SinalExato(DenominadorExato(1)) < 0
  /\ SinalExato(NumeradorExato(1)) > 0
  /\ indice.dados[1].m > 0
  /\ indice.dados[1].e < 0

\* the error an index calculator raises when the raster has fewer than n
\* bands: the spec's BandCountError is, in the source, the ValueError
\* "O ortomosaico deve ter pelo menos n bandas"
BandCountError(n) == [tipo |-> "ValueError", minimo |-> n]

\* C17: an index calculator called on a raster with fewer bands than the
\* largest band it is asked (3 for VARI) fails with the band count error,
\* before any band is read and without writing an output raster.
C17_TooFewBandsFailsBeforeRead ==
  (iv.estado # "inicio" /\ raster.count < Maximo(Range(iv.pedidas))) =>
    /\ iv.estado = "erro"
    /\ iv.erro = BandCountError(Maximo(Range(iv.pedidas)))
    /\ lidas = <<>>
    /\ indice = <<>>

\* C17 witness: calcular_vari on a raster of 2 bands has failed.
C17_Witness ==
  /\ iv.estado = "erro"
  /\ iv.funcao = "vari"
  /\ raster.count = 2
  /\ iv.erro.minimo = 3
  /\ indice = <<>>

(***************************************************************************)
(* Properties of the chain (checked under SpecCadeia).                     *)
(***************************************************************************)
\* rectangle p and pixel px have a point in common (the sides of p lie on
\* no pixel edge, so a common point is one inside the pixel)
TemPontoEm(p, px) ==
  /\ \E x \in p.x0 .. p.x1 : Lado * px[1] < x /\ x < Lado * (px[1] + 1)
  /\ \E y \in p.y0 .. p.y1 : Lado * px[2] < y /\ y < Lado * (px[2] + 1)
\* pixel px is touched by the union of the boundary polygons
TocadoPeloLimite(px) == \E p \in limite : TemPontoEm(p, px)
\* rectangle p has no point inside the raster
ForaDoRaster(p) ==
  \/ p.x1 <= 0 \/ p.x0 >= Lado * Largura
  \/ p.y1 <= 0 \/ p.y0 >= Lado * Altura

\* the pixel column (row) whose span holds coordinate x
Coluna(x) ==
  CHOOSE c \in -Largura - Altura .. 2 * (Largura + Altura) :
    Lado * c <= x /\ x < Lado * (c + 1)
\* the bounding box of the boundary polygons snapped outwards to the pixel
\* grid: first column and row, and the columns and rows after the last
CaixaNaGrade ==
  [c0 |-> Coluna(Minimo({p.x0 : p \in limite})),
   c1 |-> Coluna(Maximo({p.x1 : p \in limite})) + 1,
   r0 |-> Coluna(Minimo({p.y0 : p \in limite})),
   r1 |-> Coluna(Maximo({p.y1 : p \in limite})) + 1]
ExtensaoDoRecorte ==
  [c0 |-> recorte.c0, c1 |-> recorte.c0 + recorte.largura,
   r0 |-> recorte.r0, r1 |-> recorte.r0 + recorte.altura]
\* a pixel of the clipped raster keeps the samples of the orthomosaic if and
\* only if the boundary touches it
MantidoSeTocado ==
  \A px \in DOMAIN recorte.dados :
    recorte.dados[px] = PixelFonte(fonte, px[1], px[2]) <=> TocadoPeloLimite(px)

\* C12: a pixel the clip stage set to nodata (a pixel of the cropped window
\* that the boundary does not touch) is a sample of no grid cell.
C12_ClipNodataNeverSampled ==
  cd.etapa = "fim" =>
    \A k \in DOMAIN zonal.amostras :
      \A px \in zonal.amostras[k] : TocadoPeloLimite(px)

\* C13: the samples of a grid cell include every pixel of the index raster
\* with valid data that the cell touches, so a cell that overlaps valid
\* data has count >= 1.
C13_SamplesAreAllTouchedPixels ==
  cd.etapa = "fim" =>
    \A k \in DOMAIN zonal.amostras :
      \A px \in DOMAIN indice_rec.dados :
        (TemPontoEm(malha[k], px) /\ TocadoPeloLimite(px)) =>
          px \in zonal.amostras[k]

\* the errors of the source that the spec calls GeometryError
GeometryError(mensagem) == [tipo |-> "ValueError", mensagem |-> mensagem]

C20_ExtentIsSnappedBoundingBox ==
  recorte # <<>> =>
    /\ MantidoSeTocado
    /\ ExtensaoDoRecorte = CaixaNaGrade

\* C20 amended: recortar keeps the samples of a pixel if and only if the
\* polygon union touches it, and the extent of the output is the bounding
\* box of the union snapped outwards to the pixel grid and cut to the
\* extent of the raster; the origin of the output is that of the window.
C20_ExtentIsSnappedBoxWithinRaster ==
  recorte # <<>> =>
    /\ MantidoSeTocado
    /\ ExtensaoDoRecorte =
         [c0 |-> Maximo({0, CaixaNaGrade.c0}),
          c1 |-> Minimo({fonte.largura, CaixaNaGrade.c1}),
          r0 |-> Maximo({0, CaixaNaGrade.r0}),
          r1 |-> Minimo({fonte.altura, CaixaNaGrade.r1})]
    /\ DOMAIN recorte.dados =
         (recorte.c0 .. recorte.c0 + recorte.largura - 1) \X
         (recorte.r0 .. recorte.r0 + recorte.altura - 1)

\* C20 witness: a clip by two polygons, one of them crossing the edge of
\* the raster, that kept a pixel whose centre lies in no polygon and filled
\* another pixel of the window with nodata.
C20_Witness ==
  /\ recorte # <<>>
  /\ \E p \in limite : p.x0 < 0
  /\ \E px \in DOMAIN recorte.dados :
       /\ recorte.dados[px] = PixelFonte(fonte, px[1], px[2])
       /\ \A p \in limite : ~CentroDentro(p, px[1], px[2])
  /\ \E px \in DOMAIN recorte.dados : ~TocadoPeloLimite(px)

\* C21: the clipped raster has the band count and the sample type of the
\* orthomosaic, and every pixel of the cropped window that the polygon
\* union does not touch holds, in every band, the nodata value of the
\* raster, or 0 when the raster defines none.
C21_ClipKeepsBandsAndFillsNodata ==
  recorte # <<>> =>
    /\ recorte.count = fonte.count
    /\ recorte.dtype = fonte.dtype
    /\ \A px \in DOMAIN recorte.dados :
         /\ DOMAIN recorte.dados[px] = 1..fonte.count
         /\ ~TocadoPeloLimite(px) =>
              \A b \in 1..fonte.count :
                recorte.dados[px][b] =
                  IF fonte.nodata.definido
                  THEN [n |-> fonte.nodata.valor, x |-> 0]
                  ELSE [n |-> 0, x |-> 0]

\* C21 witness: a clip of a four-band orthomosaic with a nodata value that
\* left a pixel of the window untouched.
C21_Witness ==
  /\ recorte # <<>>
  /\ fonte.count > 3
  /\ fonte.nodata.definido
  /\ \E px \in DOMAIN recorte.dados : ~TocadoPeloLimite(px)
  /\ \E px \in DOMAIN recorte.dados : TocadoPeloLimite(px)

(***************************************************************************)
(* Properties of gerar_ranking (checked under SpecRanking).                *)
(***************************************************************************)
Posicoes == DOMAIN grade_saida
\* the output rows of the cells that have a defined mean, and their number
Definidas == {p \in Posicoes : grade_saida[p].count > 0}
NDef == Cardinality(Definidas)
Categorias == {"Excelente", "Bom", "Medio", "Regular", "Ruim"}

\* the category of the exact value 100 * (1 - r / n), lower bounds inclusive
CategoriaExata(r, n) ==
  IF 100 * (n - r) >= LimiarExcelente * n THEN "Excelente"
  ELSE IF 100 * (n - r) >= LimiarBom * n THEN "Bom"
  ELSE IF 100 * (n - r) >= LimiarMedio * n THEN "Medio"
  ELSE IF 100 * (n - r) >= LimiarRegular * n THEN "Regular"
  ELSE "Ruim"

\* C1: after gerar_ranking the ranks assigned are exactly 1..N, each once,
\* with N the number of cells that have a defined mean.
C1_RanksArePermutationOfDefined ==
  rk = "ok" =>
    /\ {grade_saida[p].ranking : p \in Posicoes} = 1..NDef
    /\ \A p, q \in Posicoes :
         grade_saida[p].ranking = grade_saida[q].ranking => p = q

\* C2: a cell without valid samples is in the output with null statistics,
\* does not make gerar_ranking fail, gets no rank and no category, and is
\* not counted in the N of the other cells' percentiles.
C2_ZeroSampleCellUnranked ==
  /\ grade # <<>> => rk # "erro"
  /\ rk = "ok" =>
       /\ Len(grade_saida) = Len(grade)
       /\ \A p \in Posicoes \ Definidas :
            /\ grade_saida[p].mean = Nulo
            /\ grade_saida[p].ranking \notin 1..Len(grade_saida)
            /\ grade_saida[p].categoria \notin Categorias
       /\ \A p \in Definidas :
            grade_saida[p].percentil = Percentil(grade_saida[p].ranking, NDef)

\* C3: of two cells with equal mean, the one that comes first in the input
\* grid gets the smaller rank.
C3_TiesKeepInputOrder ==
  rk = "ok" =>
    \A p, q \in Definidas :
      /\ grade_saida[p].valor_medio = grade_saida[q].valor_medio
      /\ grade_saida[p].indice < grade_saida[q].indice
      => grade_saida[p].ranking < grade_saida[q].ranking

\* C4: among the cells with a defined mean, a smaller rank means a mean at
\* least as large, and the cell of rank 1 has the largest mean.
C4_RankFollowsDescendingMean ==
  rk = "ok" =>
    /\ \A p, q \in Definidas :
         grade_saida[p].ranking < grade_saida[q].ranking
         => grade_saida[p].valor_medio >= grade_saida[q].valor_medio
    /\ Definidas # {} =>
         \E p \in Definidas :
           /\ grade_saida[p].ranking = 1
           /\ \A q \in Definidas :
                grade_saida[p].valor_medio >= grade_saida[q].valor_medio

\* C4 witness: a ranked grid with cells of different means and a cell
\* without samples.
C4_Witness ==
  /\ rk = "ok"
  /\ Posicoes # Definidas
  /\ \E p, q \in Definidas :
       grade_saida[p].valor_medio > grade_saida[q].valor_medio

\* C5: the percentile of a ranked cell is 100 * (1 - rank / N) with N the
\* number of ranked cells (those with a defined mean); it strictly
\* decreases with the rank and the cell of rank N has percentile 0.
C5_PercentileOfRankAndN ==
  rk = "ok" =>
    \A p \in Definidas :
      /\ grade_saida[p].percentil = Percentil(grade_saida[p].ranking, NDef)
      /\ grade_saida[p].ranking = NDef =>
           grade_saida[p].percentil = [i |-> 0, f |-> <<>>]

\* C6: the category is the band of the percentile with inclusive lower
\* bounds, so that percentiles of exactly 80, 60, 40, 20 (ranks 1, 2, 3, 4
\* of 5) are Excelente, Bom, Medio, Regular.  Stated on grids whose cells
\* all have a defined mean.
C6_CategoryBandsInclusive ==
  (rk = "ok" /\ Definidas = Posicoes) =>
    \A p \in Posicoes :
      grade_saida[p].categoria =
        CategoriaExata(grade_saida[p].ranking, Len(grade_saida))

\* C22: when the input grid carries no cell identifiers, the k-th input cell
\* gets id k (ids 1..M in input order), the ids of the output grid are
\* pairwise distinct, and each cell keeps its id through sorting and
\* ranking, whatever rank it receives.
C22_IdsDenseInInputOrder ==
  (rk = "ok" /\ ~tem_id) =>
    /\ Len(grade_saida) = Len(grade)
    /\ {grade_saida[p].id : p \in Posicoes} = 1..Len(grade)
    /\ \A p, q \in Posicoes :
         grade_saida[p].id = grade_saida[q].id => p = q
    /\ \A p \in Posicoes :
         /\ grade_saida[p].id = grade_saida[p].indice
         /\ grade_saida[p].count = grade[grade_saida[p].id].count
         /\ grade_saida[p].mean = grade[grade_saida[p].id].mean

\* C22 witness: a ranked grid of at least three cells without identifiers
\* where sorting moved a cell, so that its id differs from its rank.
C22_Witness ==
  /\ rk = "ok"
  /\ ~tem_id
  /\ Len(grade_saida) >= 3
  /\ \E p \in Posicoes : grade_saida[p].id # grade_saida[p].ranking

\* C23: the global metrics are derived over the ranked cells (those with
\* a defined mean): the counts of the categories sum to their number N,
\* the percentages of the categories sum to 100, the areas of the
\* categories sum to the area of the whole grid and their percentages to
\* 100, and min and max are the smallest and the largest mean among the
\* ranked cells.
C23_MetricsOverRankedCells ==
  metricas # <<>> =>
    LET cats == DOMAIN metricas.contagem_categorias
        pc == [c \in cats |-> metricas.percentual_categorias[c].num]
        pa == [c \in cats |-> metricas.percentual_area_por_categoria[c].num]
        medias == {grade_saida[p].mean : p \in Definidas}
    IN  /\ Total(metricas.contagem_categorias, cats) = NDef
        /\ \A c \in cats : metricas.percentual_categorias[c].den = NDef
        /\ Total(pc, cats) = 100 * NDef
        /\ Total(metricas.area_por_categoria, cats) = metricas.area_total
        /\ metricas.area_total =
             Total([k \in DOMAIN grade |-> AreaDaCelula(k)], DOMAIN grade)
        /\ \A c \in cats :
             metricas.percentual_area_por_categoria[c].den = metricas.area_total
        /\ Total(pa, cats) = 100 * metricas.area_total
        /\ NDef > 0 =>
             /\ metricas.estatisticas_valor.min = Minimo(medias)
             /\ metricas.estatisticas_valor.max = Maximo(medias)

\* the float64 x in hundredths, rounded to the nearest (x < 200; the bits
\* of the fraction after the 16th are left out)
Centesimos(x) ==
  LET f16 == 256 * BitsToInt(x.f, 0) + BitsToInt(x.f, 8)
  IN  (6553600 * x.i + 100 * f16 + 32768) \div 65536

\* the row of the output grid that holds the k-th cell of the input grid
LinhaDe(k) == CHOOSE p \in Posicoes : grade_saida[p].indice = k

\* a grid of three cells with three different means (3 > 2 > 1 stand for
\* 0.8 > 0.5 > 0.2), in any order
TresMedias ==
  /\ Len(grade) = 3
  /\ \A k \in 1..3 : grade[k].count > 0
  /\ {grade[k].mean : k \in 1..3} = {1, 2, 3}

\* C24: a grid of 3 cells with means 0.8, 0.5 and 0.2 gets ranks 1, 2, 3,
\* percentiles 66.67, 33.33 and 0 and categories Bom, Regular and Ruim
\* respectively, whatever the order of the cells in the input grid.
C24_ThreeCellExample ==
  (rk = "ok" /\ TresMedias) =>
    \A k \in 1..3 :
      LET l == grade_saida[LinhaDe(k)]
      IN  /\ l.mean = grade[k].mean
          /\ grade[k].mean = 3 =>
               /\ l.ranking = 1
               /\ Centesimos(l.percentil) = 6667
               /\ l.categoria = "Bom"
          /\ grade[k].mean = 2 =>
               /\ l.ranking = 2
               /\ Centesimos(l.percentil) = 3333
               /\ l.categoria = "Regular"
          /\ grade[k].mean = 1 =>
               /\ l.ranking = 3
               /\ l.percentil = [i |-> 0, f |-> <<>>]
               /\ l.categoria = "Ruim"

\* C24 witness: the three cells ranked from an input grid that lists the
\* smallest mean first and the largest second.
C24_Witness ==
  /\ rk = "ok"
  /\ TresMedias
  /\ grade[1].mean = 1
  /\ grade[2].mean = 3
  /\ grade_saida[1].indice = 2
  /\ grade_saida[3].indice = 1

\* the categories from the worst to the best
Nivel(categoria) ==
  CASE categoria = "Ruim" -> 1
    [] categoria = "Regular" -> 2
    [] categoria = "Medio" -> 3
    [] categoria = "Bom" -> 4
    [] categoria = "Excelente" -> 5

\* C27: among the ranked cells (those with a defined mean) the categories
\* are monotone in the rank (a cell of smaller rank has a category at least
\* as good); the cell ranked last is Ruim, so the cell of a single-cell grid
\* is Ruim; the cell ranked first is Excelente if and only if the number
\* of ranked cells is at least 5.
C27_CategoriesMonotoneInRank ==
  rk = "ok" =>
    /\ \A p, q \in Definidas :
         grade_saida[p].ranking < grade_saida[q].ranking =>
           Nivel(grade_saida[p].categoria) >= Nivel(grade_saida[q].categoria)
    /\ \A p \in Definidas :
         /\ (\A q \in Definidas :
               grade_saida[q].ranking <= grade_saida[p].ranking) =>
              grade_saida[p].categoria = "Ruim"
         /\ grade_saida[p].ranking = 1 =>
              (grade_saida[p].categoria = "Excelente" <=> NDef >= 5)

(***************************************************************************)
(* Properties of the jobs.                                                 *)
(***************************************************************************)
\* the jobs a request has started, and whether two of them are distinct
\* requests
Lancados == {j \in Jobs : job[j].pc \notin {"livre", "rejeitado"}}
Distintos(a, b) ==
  /\ a # b
  /\ <<job[a].projeto, job[a].talhao>> # <<job[b].projeto, job[b].talhao>>

\* the stages job j has run, and whether one of them raised
Falhou(j) == \E k \in DOMAIN job[j].hist : ~job[j].hist[k][2]
Buscou(j) == \E k \in DOMAIN job[j].hist : job[j].hist[k][1] \in EtapasBaixar
Status(j) == [k \in DOMAIN job[j].notifs |-> job[j].notifs[k].status]

\* C7: two distinct jobs running concurrently share no working file (none
\* written by one is read or written by the other) and no storage locator.
C7_JobsShareNoFiles ==
  \A a, b \in Lancados :
    Distintos(a, b) =>
      \A p \in Projetos :
        /\ \A n \in NomesLocais :
             a \in local[p][n].escritores =>
               b \notin local[p][n].escritores \cup local[p][n].leitores
        /\ \A n \in NomesProdutos :
             a \in bucket[p][n].escritores => b \notin bucket[p][n].escritores

\* C8: every execution notifies "iniciado" before any fetch and, once it
\* has ended, has notified exactly one terminal status after it:
\* "concluido" if it succeeded, "erro" if not.
C8_StartedThenOneTerminal ==
  \A j \in Lancados :
    /\ Buscou(j) => (Status(j) # <<>> /\ Status(j)[1] = "iniciado")
    /\ job[j].pc = "fim" =>
         Status(j) = <<"iniciado",
                       IF job[j].retorno = "True" THEN "concluido" ELSE "erro">>

\* C9: an error raised at any point of processar_ortomosaico is caught:
\* "erro" is notified with the error's message and False is returned.
C9_AnyErrorCaughtAndReported ==
  \A j \in Lancados :
    Falhou(j) =>
      /\ job[j].retorno = "False"
      /\ job[j].notifs # <<>>
      /\ job[j].notifs[Len(job[j].notifs)].status = "erro"
      /\ job[j].notifs[Len(job[j].notifs)].mensagem =
           job[j].hist[Len(job[j].hist)][1]

\* C10: the stages of a job run in the order fetch (orthomosaic, boundary,
\* grid), clip, index, rank, report, store: each stage run is the next of
\* the order, every stage before the last one run returned successfully,
\* and nothing runs after a stage that failed.
C10_StagesInOrderFailFast ==
  \A j \in Lancados :
    LET h == job[j].hist IN
    /\ Len(h) <= Len(Ordem) + 1
    /\ \A k \in DOMAIN h :
         /\ h[k][1] = (<<"diretorio">> \o Ordem)[k]
         /\ k < Len(h) => h[k][2]
    /\ Falhou(j) => job[j].pc = "fim"
    /\ job[j].pc \in {"inicio", "agendado"} => h = <<>>
    /\ (job[j].pc \notin {"inicio", "agendado", "fim"}) =>
         /\ Len(h) = Indice(job[j].pc)
         /\ h[Len(h)][2]

\* C10 witness: a job that failed at a store after every earlier stage
\* ran, and nothing after it.
C10_Witness ==
  \E j \in Lancados :
    /\ job[j].pc = "fim"
    /\ job[j].hist[Len(job[j].hist)] = <<"enviar_vari", FALSE>>
    /\ bucket[job[j].projeto]["recortado"].autor = j
    /\ bucket[job[j].projeto]["vari"].autor = 0

\* the positions of job j's history at which stage e was attempted
Tentativas(j, e) == {k \in DOMAIN job[j].hist : job[j].hist[k][1] = e}
EtapasArmazenamento == EtapasBaixar \cup EtapasEnviar

\* C11: no retry. In one job each of the three fetches and each of the four
\* stores is attempted at most once, and a fetch or store that fails is the
\* last call of the job: the job ends as failed, and no storage call (fetch
\* or store) follows it, so the locators of the later stores stay unwritten.
C11_NoRetryOfFetchOrStore ==
  \A j \in Lancados :
    LET h == job[j].hist IN
    /\ \A e \in EtapasArmazenamento : Cardinality(Tentativas(j, e)) <= 1
    /\ \A k \in DOMAIN h :
         (h[k][1] \in EtapasArmazenamento /\ ~h[k][2]) =>
           /\ k = Len(h)
           /\ job[j].pc = "fim"
           /\ job[j].retorno = "False"
           /\ \A e \in EtapasEnviar :
                Indice(e) >= Indice(h[k][1]) =>
                  j \notin bucket[job[j].projeto][Envia(e)].escritores

\* C11 witness: the second fetch failed; the job ended as failed after one
\* attempt of it, the third fetch and the stores never called.
C11_Witness ==
  \E j \in Lancados :
    /\ job[j].pc = "fim"
    /\ job[j].retorno = "False"
    /\ job[j].hist[Len(job[j].hist)] = <<"baixar_poligono", FALSE>>
    /\ Cardinality(Tentativas(j, "baixar_poligono")) = 1
    /\ Tentativas(j, "baixar_grade") = {}
    /\ \A n \in NomesProdutos : bucket[job[j].projeto][n].escritores = {}

\* the artefacts of a job that a later stage consumes, and whether job j's
\* stage e has returned
Artefatos == NomesLocais \ {"relatorio"}
Retornou(j, e) ==
  \E k \in DOMAIN job[j].hist : job[j].hist[k] = <<e, TRUE>>

\* C19: within one job every artefact (the three fetched inputs, the clipped
\* raster, the index raster, the ranked grid) is written by that job exactly
\* once, by the stage that produces it, and never again: the job's later
\* stages, report generation and uploads included, only read it.
C19_ArtefactsWrittenOnce ==
  \A j \in Lancados :
    \A e \in EtapasBaixar \cup EtapasLocais :
      LET f == local[job[j].projeto][Escreve(e)] IN
      /\ f.versao[j] = IF Retornou(j, e) THEN 1 ELSE 0
      /\ j \in f.escritores <=> Retornou(j, e)
      /\ j \in f.leitores => Retornou(j, e)

\* C19 witness: a job that ran to the end; the report and the four uploads
\* have read the artefacts, each of which still has its first version.
C19_Witness ==
  \E j \in Lancados :
    /\ job[j].pc = "fim"
    /\ job[j].retorno = "True"
    /\ \A n \in Artefatos :
         /\ local[job[j].projeto][n].versao[j] = 1
         /\ j \in local[job[j].projeto][n].leitores
    /\ \A n \in NomesProdutos : bucket[job[j].projeto][n].autor = j

\* the artefacts in the order processar_ortomosaico stores them
OrdemArtefatos == <<"recortado", "vari", "grade_saida", "relatorio">>
\* the stages of job j that returned, and the number of its stores that did
Concluidas(j) ==
  {job[j].hist[k][1] : k \in {i \in DOMAIN job[j].hist : job[j].hist[i][2]}}
NEnviados(j) == Cardinality(Concluidas(j) \cap EtapasEnviar)
\* the objects of the project of job j that job j has stored
Armazenados(j) ==
  {n \in NomesProdutos : j \in bucket[job[j].projeto][n].escritores}

\* C25: no artefact is stored before recortar, calcular_vari, gerar_ranking
\* and gerar_relatorio have all returned (a failure of one of them leaves
\* no store call); the stores happen in the order clipped raster, index
\* raster, ranked grid, report; "concluido" is sent and True returned only
\* after the four stores; a failure of the k-th store leaves the first
\* k - 1 artefacts in storage, the job reports "erro" and returns False.
C25_StoresAfterStagesInOrder ==
  \A j \in Lancados :
    /\ Armazenados(j) = {OrdemArtefatos[i] : i \in 1..NEnviados(j)}
    /\ Tentativas(j, "enviar_recorte") # {} => EtapasLocais \subseteq Concluidas(j)
    /\ (\E e \in EtapasLocais : <<e, FALSE>> \in Range(job[j].hist)) =>
         /\ \A e \in EtapasEnviar : Tentativas(j, e) = {}
         /\ Armazenados(j) = {}
    /\ (job[j].retorno = "True" \/ "concluido" \in Range(Status(j))) =>
         /\ NEnviados(j) = 4
         /\ Armazenados(j) = NomesProdutos
    /\ \A k \in 1..4 :
         (\E e \in EtapasEnviar :
            /\ Envia(e) = OrdemArtefatos[k]
            /\ <<e, FALSE>> \in Range(job[j].hist)) =>
           /\ Armazenados(j) = {OrdemArtefatos[i] : i \in 1..(k - 1)}
           /\ job[j].retorno = "False"
           /\ Status(j)[Len(Status(j))] = "erro"
           /\ "concluido" \notin Range(Status(j))

\* C25 witness: the third store (the ranked grid) failed after the clipped
\* raster and the index raster were stored.
C25_Witness ==
  \E j \in Lancados :
    /\ <<"enviar_grade", FALSE>> \in Range(job[j].hist)
    /\ Armazenados(j) = {"recortado", "vari"}
    /\ job[j].retorno = "False"

\* the step is the end of a stage of job j (it returned or raised), and
\* every working file the stage read or uploaded was last written by job j
UsaSoProprios(j) ==
  LET e == job[j].pc
      p == job[j].projeto
  IN  Len(job'[j].hist) = Len(job[j].hist) + 1 =>
        /\ e \in EtapasLocais => \A n \in Le(e) : local[p][n].autor = j
        /\ e \in EtapasEnviar =>
             /\ local[p][Envia(e)].autor = j
             /\ bucket'[p][Envia(e)] # bucket[p][Envia(e)] =>
                  bucket'[p][Envia(e)].autor = j

\* C26: when the jobs of one project run one after the other, in a working
\* directory that is reused and never cleaned, every file a stage of a job
\* reads and every artefact the job uploads was written by that job: no
\* file left by an earlier run, successful or not, is read or uploaded.
C26_NoStaleFileUsed == [][\A j \in Jobs : UsaSoProprios(j)]_vars

\* C26 witness: a job failed in gerar_relatorio, leaving its files in the
\* working directory, and a later job of the same project ran to the end
\* and stored its own artefacts.
C26_Witness ==
  \E a, b \in Jobs :
    /\ a < b
    /\ job[a].projeto = job[b].projeto
    /\ <<"relatorio", FALSE>> \in Range(job[a].hist)
    /\ job[b].retorno = "True"
    /\ local[job[b].projeto]["recortado"].escritores = {a, b}
    /\ \A n \in NomesProdutos : bucket[job[b].projeto][n].autor = b

\* the stages of processar_ortomosaico before the final notification
EtapasDeTrabalho == {Ordem[k] : k \in 1..(Len(Ordem) - 1)}
\* the notifications of job j whose POST was not answered with 2xx
NaoEntregues(j) ==
  {k \in DOMAIN job[j].notifs : job[j].notifs[k].resultado # "2xx"}

\* C28: the delivery of the notifications never changes the outcome of a
\* job: enviar_webhook never raises, whether WEBHOOK_URL is unset, the POST
\* raises or the answer is not 2xx, so the value returned and the artefacts
\* stored depend on the stages alone, as when every notification is
\* delivered; a notification that failed is not sent again.
C28_DeliveryNeverChangesOutcome ==
  \A j \in Lancados :
    /\ <<"notificar", FALSE>> \notin Range(job[j].hist)
    /\ \A a, b \in DOMAIN job[j].notifs :
         job[j].notifs[a].status = job[j].notifs[b].status => a = b
    /\ Armazenados(j) = {OrdemArtefatos[i] : i \in 1..NEnviados(j)}
    /\ job[j].pc = "fim" =>
         /\ job[j].retorno = "True" <=> EtapasDeTrabalho \subseteq Concluidas(j)
         /\ job[j].retorno = "False" <=>
              \E e \in EtapasDeTrabalho : <<e, FALSE>> \in Range(job[j].hist)
         /\ job[j].retorno = "excecao" <=>
              <<"diretorio", FALSE>> \in Range(job[j].hist)

\* C28 witness: a job returned True and stored its four artefacts although
\* the POST of "iniciado" raised and the one of "concluido" was answered
\* with a status that is not 2xx.
C28_Witness ==
  \E j \in Lancados :
    /\ job[j].pc = "fim"
    /\ job[j].retorno = "True"
    /\ Armazenados(j) = NomesProdutos
    /\ Len(job[j].notifs) = 2
    /\ job[j].notifs[1].resultado = "excecao"
    /\ job[j].notifs[2].resultado = "nao_2xx"
    /\ NaoEntregues(j) = {1, 2}

\* the requests POST /processar has answered
Pedidos == {j \in Jobs : job[j].modo = "api"}

\* C30: a POST /processar whose id_projeto or id_talhao is empty is
\* rejected with status 400 and schedules no background job; a request with
\* both identifiers gets the answer "iniciado" (status 200) and schedules
\* one background job, the answer not waiting for the job to run.
C30_EmptyIdRejectedWith400 ==
  \A j \in Pedidos :
    IF job[j].projeto = Vazio \/ job[j].talhao = Vazio
    THEN /\ job[j].resposta = "400"
         /\ job[j].pc = "rejeitado"
         /\ job[j].hist = <<>>
         /\ job[j].notifs = <<>>
    ELSE /\ job[j].resposta = "200"
         /\ job[j].pc # "rejeitado"
         /\ job[j].pc = "agendado" => (job[j].hist = <<>> /\ job[j].notifs = <<>>)

\* C29: a failure while the global metrics are computed does not fail the
\* job: calcular_metricas_globais returns None, gerar_relatorio builds the
\* report without the tables of statistics and with the generic
\* conclusion, and the job, if its stores succeed, stores its four
\* artefacts, reports "concluido" and returns True.
C29_MetricsFailureDoesNotFailJob ==
  \A j \in Lancados :
    job[j].metricas = "None" =>
      /\ "relatorio" \in Concluidas(j)
      /\ job[j].relatorio =
           [escrito |-> TRUE, tabela_estatisticas |-> FALSE,
            tabela_categorias |-> FALSE, conclusao |-> "generica"]
      /\ job[j].pc = "fim" =>
           IF EtapasEnviar \subseteq Concluidas(j)
           THEN /\ job[j].retorno = "True"
                /\ Armazenados(j) = NomesProdutos
                /\ Status(j)[Len(Status(j))] = "concluido"
           ELSE /\ job[j].retorno = "False"
                /\ \E e \in EtapasEnviar : <<e, FALSE>> \in Range(job[j].hist)

\* C29 witness: a job whose metrics could not be computed has ended: it
\* returned True, stored its four artefacts and notified "concluido".
C29_Witness ==
  \E j \in Lancados :
    /\ job[j].metricas = "None"
    /\ job[j].pc = "fim"
    /\ job[j].retorno = "True"
    /\ Armazenados(j) = NomesProdutos
    /\ "concluido" \in Range(Status(j))
    /\ ~job[j].relatorio.tabela_estatisticas

====
